---- MODULE Spec2Model ----
(***************************************************************************)
(* A model of epaillas/density_splitter's python_tools: the RSDModel class *)
(* of rsdmodel.py (constructor, log_prior, log_likelihood and the theory   *)
(* functions) and the emcee driver script mcmc.py.                         *)
(*                                                                         *)
(* Numbers.  A Python float is modelled as an exact rational [n, d] with   *)
(* d > 0 in lowest terms; -infinity is [n |-> -1, d |-> 0].  A float whose *)
(* value has no exact arithmetic form (the result of a spline-and-Simpson  *)
(* quadrature, of the Gaussian streaming integral, of a logarithm) is kept *)
(* as the term the code computes: a record naming the operation and the    *)
(* values it was applied to.  Two equal terms denote the same float.       *)
(***************************************************************************)
EXTENDS Integers, Sequences, FiniteSets, TLC

VARIABLES
    call,      \* SpecTheory: the function application under evaluation
    ret,       \* SpecTheory: its result, Pending until it is evaluated
    args,      \* the arguments of RSDModel(...) / of the driver, and the files
    pc,        \* where the program is: "new", "built", an exit or an exception
    reads,     \* the input files read so far, in order
    model,     \* the RSDModel instance (NoInstance before/without one)
    model0,    \* the instance as the constructor returned it
    inflight,  \* per worker: the call it is evaluating, or Idle
    results,   \* the completed calls: [fn, theta, result]
    store,     \* the chain store behind args.backend_name
    run        \* the driver run: its number, iteration and walker positions

vars == <<call, ret, args, pc, reads, model, model0, inflight, results, store, run>>

(***************************************************************************)
(* Exact rational arithmetic                                               *)
(***************************************************************************)
Abs(k) == IF k < 0 THEN -k ELSE k

RECURSIVE GCD(_, _)
GCD(a, b) == IF b = 0 THEN a ELSE GCD(b, a % b)

Rat(n, d) ==
    LET g == GCD(Abs(n), Abs(d))
        s == IF d < 0 THEN -1 ELSE 1
    IN  [n |-> s * (n \div g), d |-> s * (d \div g)]

RInt(k) == [n |-> k, d |-> 1]
Zero == RInt(0)
One == RInt(1)
NegInf == [n |-> -1, d |-> 0]

IsFinite(x) == x.d # 0

RAdd(a, b) ==
    LET l == (a.d \div GCD(a.d, b.d)) * b.d
    IN  Rat(a.n * (l \div a.d) + b.n * (l \div b.d), l)
RNeg(a) == [n |-> -a.n, d |-> a.d]
RSub(a, b) == RAdd(a, RNeg(b))
RMul(a, b) ==
    LET g1 == GCD(Abs(a.n), b.d)
        g2 == GCD(Abs(b.n), a.d)
    IN  Rat((a.n \div g1) * (b.n \div g2), (a.d \div g2) * (b.d \div g1))
RDiv(a, b) == RMul(a, Rat(b.d, b.n))
RLt(a, b) == a.n * b.d < b.n * a.d
RSq(a) == RMul(a, a)

(***************************************************************************)
(* Floats without an exact form: terms                                     *)
(***************************************************************************)
IsRat(x) == "n" \in DOMAIN x

\* np.log: exact where the logarithm is (log 1.0 = 0.0), a term elsewhere.
FLog(x) == IF x = One THEN Zero ELSE [op |-> "log", of |-> x]

\* c * y for a rational c: exact on rationals, a term on terms.
FScale(c, y) ==
    IF IsRat(y) THEN RMul(c, y) ELSE [op |-> "scale", coef |-> c, of |-> y]

\* lp + ll as log_probability adds them; lp is a rational.
FAdd(lp, ll) ==
    IF IsRat(ll) THEN RAdd(lp, ll)
    ELSE IF lp = Zero THEN ll
    ELSE [op |-> "add", left |-> lp, right |-> ll]

Returned(v) == [outcome |-> "returned", value |-> v]
Raised(e) == [outcome |-> e]

(***************************************************************************)
(* RSDModel.log_prior                                                      *)
(***************************************************************************)
Fs8Lo == Rat(1, 10)
Fs8Hi == RInt(2)
SigmaVLo == RInt(1)
SigmaVHi == RInt(500)
EpsilonLo == Rat(8, 10)
EpsilonHi == Rat(12, 10)

\* A chained comparison lo < x < hi.
Inside(lo, x, hi) == RLt(lo, x) /\ RLt(x, hi)

\* log_prior with the bounds taken as closed intervals.
LogPriorClosed(self, theta) ==
    IF self.model = 1 \/ self.model = 3
    THEN IF Len(theta) # 3 THEN Raised("ValueError")
         ELSE IF /\ ~RLt(theta[1], Fs8Lo) /\ ~RLt(Fs8Hi, theta[1])
                 /\ ~RLt(theta[2], SigmaVLo) /\ ~RLt(SigmaVHi, theta[2])
                 /\ ~RLt(theta[3], EpsilonLo) /\ ~RLt(EpsilonHi, theta[3])
              THEN Returned(Zero) ELSE Returned(NegInf)
    ELSE IF Len(theta) # 2 THEN Raised("ValueError")
         ELSE IF /\ ~RLt(theta[1], Fs8Lo) /\ ~RLt(Fs8Hi, theta[1])
                 /\ ~RLt(theta[2], EpsilonLo) /\ ~RLt(EpsilonHi, theta[2])
              THEN Returned(Zero) ELSE Returned(NegInf)

\* theta is a sequence of floats; unpacking it into the wrong number of
\* names raises ValueError.
LogPrior(self, theta) ==
    IF self.model = 1 \/ self.model = 3
    THEN IF Len(theta) # 3 THEN Raised("ValueError")
         ELSE LET fs8 == theta[1]
                  sigma_v == theta[2]
                  epsilon == theta[3]
              IN  IF /\ Inside(Fs8Lo, fs8, Fs8Hi)
                     /\ Inside(SigmaVLo, sigma_v, SigmaVHi)
                     /\ Inside(EpsilonLo, epsilon, EpsilonHi)
                  THEN Returned(Zero)
                  ELSE Returned(NegInf)
    ELSE IF Len(theta) # 2 THEN Raised("ValueError")
         ELSE LET fs8 == theta[1]
                  epsilon == theta[2]
              IN  IF /\ Inside(Fs8Lo, fs8, Fs8Hi)
                     /\ Inside(EpsilonLo, epsilon, EpsilonHi)
                  THEN Returned(Zero)
                  ELSE Returned(NegInf)

(***************************************************************************)
(* RSDModel.log_likelihood, lines 154-161: the moment vector, chi2 and the *)
(* Sellentin-Heavens log-likelihood                                        *)
(***************************************************************************)
NMocks == 300

RECURSIVE SumRange(_, _, _)
\* f[lo] + ... + f[hi], summed by halves (exact sums do not depend on the
\* order)
SumRange(f, lo, hi) ==
    IF lo > hi THEN Zero
    ELSE IF lo = hi THEN f[lo]
    ELSE LET mid == (lo + hi) \div 2
         IN  RAdd(SumRange(f, lo, mid), SumRange(f, mid + 1, hi))

\* f[1] + ... + f[k] for a sequence (or function on 1..k) of rationals
SumTo(f, k) == SumRange(f, 1, k)

\* np.dot(a, b) of two vectors
Dot(a, b) == SumTo([i \in 1..Len(a) |-> RMul(a[i], b[i])], Len(a))

\* np.dot(v, m) of a vector and a matrix (a sequence of rows)
VecMat(v, m) ==
    [j \in 1..Len(m[1]) |-> SumTo([i \in 1..Len(v) |-> RMul(v[i], m[i][j])], Len(v))]

VSub(a, b) == [i \in 1..Len(a) |-> RSub(a[i], b[i])]
VAdd(a, b) == [i \in 1..Len(a) |-> RAdd(a[i], b[i])]

IsNumeric(v) == \A i \in 1..Len(v) : IsRat(v[i])

\* self.icov is a record: [dim |-> k, rows |-> the k rows] for a matrix
\* whose entries are known, [dim |-> k, file |-> name] for the inverse of
\* the k x k matrix loaded from a file, whose entries stay symbolic.

\* chi2 with the residual taken as modelvec + datavec.
Chi2Plus(modelvec, datavec, icov) ==
    IF IsNumeric(modelvec) /\ IsNumeric(datavec) /\ "rows" \in DOMAIN icov
    THEN Dot(VecMat(VAdd(modelvec, datavec), icov.rows), VAdd(modelvec, datavec))
    ELSE [op |-> "chi2", modelvec |-> modelvec, datavec |-> datavec, icov |-> icov]

Chi2(modelvec, datavec, icov) ==
    IF IsNumeric(modelvec) /\ IsNumeric(datavec) /\ "rows" \in DOMAIN icov
    THEN Dot(VecMat(VSub(modelvec, datavec), icov.rows), VSub(modelvec, datavec))
    ELSE [op |-> "chi2", modelvec |-> modelvec, datavec |-> datavec, icov |-> icov]

\* -self.nmocks/2 * np.log(1 + chi2/(self.nmocks-1))
LogLike(nmocks, chi2) ==
    LET arg == IF IsRat(chi2)
               THEN RAdd(One, RDiv(chi2, RInt(nmocks - 1)))
               ELSE [op |-> "1+chi2/(nmocks-1)", chi2 |-> chi2, nmocks |-> nmocks]
    IN  FScale(Rat(-nmocks, 2), FLog(arg))

LikelihoodTail(self, xi0, xi2) ==
    LET modelvec == IF self.full_fit THEN xi0 \o xi2 ELSE xi2
    IN  IF \/ Len(modelvec) # Len(self.datavec)
           \/ self.icov.dim # Len(modelvec)
        THEN [outcome |-> "ValueError", modelvec |-> modelvec]
        ELSE [outcome |-> "returned",
              modelvec |-> modelvec,
              chi2 |-> Chi2(modelvec, self.datavec, self.icov),
              value |-> LogLike(self.nmocks, Chi2(modelvec, self.datavec, self.icov))]

(***************************************************************************)
(* Arithmetic of the theory functions.  Square roots, the trapezoid sum    *)
(* and spline evaluations are exact where the result is a multiple of      *)
(* 1/Quantum and rounded down to one otherwise (the float rounding of the  *)
(* code, at a coarser unit).                                               *)
(***************************************************************************)
Quantum == 10
NMuSamples == 100

FRound(x) == Rat((x.n * Quantum) \div x.d, Quantum)

\* the integer square root: the m with m * m <= k < (m + 1) * (m + 1)
ISqrt(k) == CHOOSE m \in 0..k : m * m <= k /\ (m + 1) * (m + 1) > k
IsSquare(k) == ISqrt(k) * ISqrt(k) = k

\* np.sqrt
RSqrt(x) ==
    IF IsSquare(x.n) /\ IsSquare(x.d)
    THEN Rat(ISqrt(x.n), ISqrt(x.d))
    ELSE Rat(ISqrt((x.n * Quantum * Quantum) \div x.d), Quantum)

\* np.linspace(0, 1., 100)
Mus == [k \in 1..NMuSamples |-> Rat(k - 1, NMuSamples - 1)]

\* np.trapz(y, x)
Trapz(y, x) ==
    SumTo([k \in 1..(Len(x) - 1) |->
              RMul(RSub(x[k + 1], x[k]), RDiv(RAdd(y[k + 1], y[k]), RInt(2)))],
          Len(x) - 1)

\* sqrt(1 + (1 - mus**2) * (alpha_perp**2 / alpha_para**2 - 1)) over mus
StretchFactor(alpha_perp, alpha_para) ==
    [k \in 1..NMuSamples |->
        RSqrt(RAdd(One, RMul(RSub(One, RSq(Mus[k])),
                             RSub(RDiv(RSq(alpha_perp), RSq(alpha_para)), One))))]

\* The rescaling loop of the theory functions (lines 185-190, 252-257,
\* 307-312): rescaled_r[i] = trapz((r[i] * alpha_para) * sqrt(...), mus).
\* (A value bound through a singleton set is evaluated once.)
RescaledR(r, alpha_perp, alpha_para) ==
    CHOOSE rescaled_r \in
        {[i \in 1..Len(r) |->
             FRound(Trapz([k \in 1..NMuSamples |-> RMul(RMul(r[i], alpha_para), f[k])],
                          Mus))] :
            f \in {StretchFactor(alpha_perp, alpha_para)}} : TRUE

(***************************************************************************)
(* InterpolatedUnivariateSpline(x, y, k=3[, ext]).  On four samples the    *)
(* interpolating cubic spline has no interior knot: it is the cubic        *)
(* through the four samples.  A spline is the record [x, y, ext].          *)
(***************************************************************************)
RECURSIVE ProdTo(_, _)
ProdTo(f, k) == IF k = 0 THEN One ELSE RMul(ProdTo(f, k - 1), f[k])

Lagrange(xs, ys, x) ==
    SumTo([k \in 1..Len(xs) |->
              RMul(ys[k],
                   ProdTo([m \in 1..Len(xs) |->
                              IF m = k THEN One
                              ELSE RDiv(RSub(x, xs[m]), RSub(xs[k], xs[m]))],
                          Len(xs)))],
          Len(xs))

Spline(x, y, ext) == [x |-> x, y |-> y, ext |-> ext]

\* ext=3 returns the boundary value outside the samples, ext=0 (the
\* default) extrapolates.  The argument and the value are floats: both are
\* rounded to the unit.
SplineEval(sp, x) ==
    LET lo == sp.x[1]
        hi == sp.x[Len(sp.x)]
        xq == FRound(x)
        xx == IF sp.ext = 3 /\ RLt(xq, lo) THEN lo
              ELSE IF sp.ext = 3 /\ RLt(hi, xq) THEN hi
              ELSE xq
    IN  FRound(Lagrange(sp.x, sp.y, xx))

(***************************************************************************)
(* RSDModel.model2_theory, lines 249-281: the prediction xi_model[j] at    *)
(* separation s and angle cosine mu.  self holds the fields the function   *)
(* reads: r_for_delta, xi_r, delta_r, Delta_r, s8norm.                     *)
(***************************************************************************)
\* The rescaled interpolating functions (lines 259-267).
Model2Rescaled(self, alpha_perp, alpha_para) ==
    CHOOSE rescaled \in
        {[xi_r |-> Spline(x, [i \in 1..Len(self.r_for_delta) |->
                                 SplineEval(self.xi_r, self.r_for_delta[i])], 0),
          delta_r |-> Spline(x, [i \in 1..Len(self.r_for_delta) |->
                                    SplineEval(self.delta_r, self.r_for_delta[i])], 3),
          Delta_r |-> Spline(x, [i \in 1..Len(self.r_for_delta) |->
                                    SplineEval(self.Delta_r, self.r_for_delta[i])], 3)] :
            x \in {RescaledR(self.r_for_delta, alpha_perp, alpha_para)}} : TRUE

\* The true separation and angle cosine (lines 271-274).
TrueSMu(alpha_perp, alpha_para, s, mu) ==
    CHOOSE t \in
        {[true_s |-> true_s, true_mu |-> RDiv(RMul(RMul(s, mu), alpha_para), true_s)] :
            true_s \in {RSqrt(RAdd(RSq(RMul(RMul(s, mu), alpha_para)),
                                   RSq(RMul(RMul(s, RSqrt(RSub(One, RSq(mu)))),
                                            alpha_perp))))}} : TRUE

\* The radius of line 276: true_s * (1 + scaled_fs8/3 * Delta(true_s) * true_mu**2).
Model2Radius(rescaled, scaled_fs8, t) ==
    CHOOSE q \in
        {[rescaled |-> rescaled, true_mu |-> t.true_mu,
          r |-> RMul(t.true_s,
                     RAdd(One, RMul(RMul(RDiv(scaled_fs8, RInt(3)), D),
                                    RSq(t.true_mu))))] :
            D \in {SplineEval(rescaled.Delta_r, t.true_s)}} : TRUE

\* Lines 278-281 at the radius r.
Model2Formula(rescaled, scaled_fs8, true_mu, r) ==
    CHOOSE xi_model \in
        {RAdd(RAdd(p[1], RMul(RMul(RDiv(scaled_fs8, RInt(3)), p[3]), RAdd(One, p[1]))),
              RMul(RMul(RMul(scaled_fs8, RSq(true_mu)), RSub(p[2], p[3])),
                   RAdd(One, p[1]))) :
            p \in {<<SplineEval(rescaled.xi_r, r),
                     SplineEval(rescaled.delta_r, r),
                     SplineEval(rescaled.Delta_r, r)>>}} : TRUE

\* xi_model with the real-space profile read off the unrescaled xi_r.
Model2XiModelUnrescaled(self, fs8, alpha_perp, alpha_para, s, mu) ==
    SplineEval(self.xi_r, TrueSMu(alpha_perp, alpha_para, s, mu).true_s)

Model2XiModel(self, fs8, alpha_perp, alpha_para, s, mu) ==
    CHOOSE xi_model \in
        {Model2Formula(q.rescaled, RDiv(fs8, self.s8norm), q.true_mu, q.r) :
            q \in {Model2Radius(rescaled, RDiv(fs8, self.s8norm), t) :
                      rescaled \in {Model2Rescaled(self, alpha_perp, alpha_para)},
                      t \in {TrueSMu(alpha_perp, alpha_para, s, mu)}}} : TRUE

(***************************************************************************)
(* RSDModel.__init__.  The constructor is a chain of steps over the record *)
(* [outcome, message, reads, self]: self is the instance under             *)
(* construction (a record of its attributes), reads the files read so far. *)
(* A step does nothing once the outcome is no longer "running".  args.fs   *)
(* describes the files: whether the covariance file exists, the dimension  *)
(* of the matrix in it and the number of rows of the tables.               *)
(***************************************************************************)
NoInstance == [none |-> TRUE]
NoneValue == "None"

NBins == 6

\* The centre of the i-th separation bin of the tables.
BinCentre(i) == RInt(10 * i - 5)
Grid(rows) == [i \in 1..rows |-> BinCentre(i)]

\* A column of a table, or a quantity computed from it row by row: one
\* float per row, named by where it comes from.
Column(file, what, rows) == [i \in 1..rows |-> [file |-> file, what |-> what, row |-> i]]

\* self.<name> = value for every name of the record attrs
SetAttrs(obj, attrs) == attrs @@ obj

Running(st) == st.outcome = "running"
Fail(st, e, msg) == [st EXCEPT !.outcome = e, !.message = msg]

\* Lines 30-60.
SetFields(a) ==
    [outcome |-> "running", message |-> "", reads |-> <<>>,
     self |-> [delta_r_file |-> a.delta_r_file, xi_r_file |-> a.xi_r_file,
               sv_file |-> a.sv_file, vr_file |-> a.vr_file,
               xi_smu_file |-> a.xi_smu_file, covmat_file |-> a.covmat_file,
               smin |-> a.smin, smax |-> a.smax, const_sv |-> a.const_sv,
               model |-> a.model, full_fit |-> (a.full_fit # 0),
               om_m |-> Rat(285, 1000), s8 |-> Rat(828, 1000),
               nmocks |-> NMocks, eff_z |-> Rat(57, 100), b |-> Rat(201, 100),
               growth |-> [op |-> "cosmo.get_growth", z |-> Rat(57, 100)],
               f |-> [op |-> "cosmo.get_f", z |-> Rat(57, 100)],
               s8norm |-> [op |-> "s8*growth", z |-> Rat(57, 100)],
               iaH |-> [op |-> "(1+z)/(100*E(z))", z |-> Rat(57, 100)]]]

\* Lines 62-68.
ReadCov(st, a) ==
    IF ~Running(st) THEN st
    ELSE IF a.fs.cov_exists
    THEN [st EXCEPT !.reads = Append(@, a.covmat_file),
                    !.self = SetAttrs(@, [cov |-> [dim |-> a.fs.cov_dim, file |-> a.covmat_file],
                                          icov |-> [dim |-> a.fs.cov_dim, file |-> a.covmat_file]])]
    ELSE Fail(st, "SystemExit", "Covariance matrix not found.")

\* Lines 70-74.
ReadXiR(st, a) ==
    IF ~Running(st) THEN st
    ELSE [st EXCEPT !.reads = Append(@, a.xi_r_file),
                    !.self = SetAttrs(@, [r_for_xi |-> Grid(a.fs.xi_rows),
                                          xi_r |-> Spline(Grid(a.fs.xi_rows),
                                                          Column(a.xi_r_file, "xi_r", a.fs.xi_rows), 3)])]

\* Lines 76-86.
ReadDelta(st, a) ==
    IF ~Running(st) THEN st
    ELSE [st EXCEPT !.reads = Append(@, a.delta_r_file),
                    !.self = SetAttrs(@, [r_for_delta |-> Grid(a.fs.delta_rows),
                                          delta_r |-> Spline(Grid(a.fs.delta_rows),
                                                             Column(a.delta_r_file, "delta_r", a.fs.delta_rows), 3),
                                          Delta_r |-> Spline(Grid(a.fs.delta_rows),
                                                             Column(a.delta_r_file, "3*integral/r**3", a.fs.delta_rows), 3)])]

\* Lines 88-97.  np.genfromtxt(None) raises TypeError.
ReadSv(st, a) ==
    IF ~Running(st) \/ ~(st.self.model = 1 \/ st.self.model = 3) THEN st
    ELSE IF st.self.sv_file = NoneValue THEN Fail(st, "TypeError", "genfromtxt(None)")
    ELSE [st EXCEPT !.reads = Append(@, a.sv_file),
                    !.self = SetAttrs(@, [r_for_sv |-> Grid(a.fs.sv_rows),
                                          sv |-> Spline(Grid(a.fs.sv_rows),
                                                        IF st.self.const_sv
                                                        THEN [i \in 1..a.fs.sv_rows |-> One]
                                                        ELSE Column(a.sv_file, "savgol(sv/sv[-1])", a.fs.sv_rows),
                                                        3)])]

\* Lines 99-106.
ReadVr(st, a) ==
    IF ~Running(st) \/ st.self.model # 3 THEN st
    ELSE IF st.self.vr_file = NoneValue THEN Fail(st, "TypeError", "genfromtxt(None)")
    ELSE [st EXCEPT !.reads = Append(@, a.vr_file),
                    !.self = SetAttrs(@, [r_for_vr |-> Grid(a.fs.vr_rows),
                                          vr |-> Spline(Grid(a.fs.vr_rows),
                                                        Column(a.vr_file, "vr", a.fs.vr_rows), 3),
                                          dvr |-> Spline(Grid(a.fs.vr_rows),
                                                         Column(a.vr_file, "gradient(vr)", a.fs.vr_rows), 3)])]

\* Lines 108-111, with readCorrFile, _getMonopole and _getQuadrupole
\* (lines 389-421): one monopole and one quadrupole value per separation.
ReadCorr(st, a) ==
    IF ~Running(st) THEN st
    ELSE [st EXCEPT !.reads = Append(@, a.xi_smu_file),
                    !.self = SetAttrs(@, [s_for_xi |-> Grid(a.fs.s_bins),
                                          mu_for_xi |-> [file |-> a.xi_smu_file, what |-> "unique(mu)"],
                                          xi0_s |-> Column(a.xi_smu_file, "monopole", a.fs.s_bins),
                                          xi2_s |-> Column(a.xi_smu_file, "quadrupole", a.fs.s_bins)])]


\* Line 114: idx = (s >= self.smin) & (s <= self.smax)
WindowIdx(s, smin, smax) ==
    [i \in 1..Len(s) |-> ~RLt(s[i], smin) /\ ~RLt(smax, s[i])]

\* a[idx] for a boolean index idx of the length of a
RECURSIVE MaskFrom(_, _, _)
MaskFrom(a, idx, i) ==
    IF i > Len(a) THEN <<>>
    ELSE (IF idx[i] THEN <<a[i]>> ELSE <<>>) \o MaskFrom(a, idx, i + 1)
Mask(a, idx) == MaskFrom(a, idx, 1)

\* self.<name> = self.<name>[idx]: AttributeError when the attribute was
\* never set, IndexError when the boolean index has another length.
MaskAttr(st, name, idx) ==
    IF ~Running(st) THEN st
    ELSE IF name \notin DOMAIN st.self THEN Fail(st, "AttributeError", name)
    ELSE IF Len(st.self[name]) # Len(idx) THEN Fail(st, "IndexError", name)
    ELSE [st EXCEPT !.self = SetAttrs(@, (name :> Mask(st.self[name], idx)))]

\* Lines 113-121.  s is the separation vector _getMonopole returned.
ApplyWindow(st) ==
    IF ~Running(st) THEN st
    ELSE LET idx == WindowIdx(st.self.s_for_xi, st.self.smin, st.self.smax)
         IN  MaskAttr(MaskAttr(MaskAttr(MaskAttr(MaskAttr(MaskAttr(st,
                 "s_for_xi", idx), "r_for_xi", idx), "r_for_delta", idx),
                 "r_for_sv", idx), "xi0_s", idx), "xi2_s", idx)

\* Lines 124-127.
BuildDatavec(st) ==
    IF ~Running(st) THEN st
    ELSE [st EXCEPT !.outcome = "built",
                    !.self = SetAttrs(@, [datavec |-> IF st.self.full_fit
                                                      THEN st.self.xi0_s \o st.self.xi2_s
                                                      ELSE st.self.xi2_s])]

\* The constructor with the covariance file looked for after the read of
\* the real-space monopole.
ConstructCovAfterXiR(a) ==
    BuildDatavec(ApplyWindow(ReadCorr(ReadVr(ReadSv(ReadDelta(
        ReadCov(ReadXiR(SetFields(a), a), a), a), a), a), a)))

Construct(a) ==
    BuildDatavec(ApplyWindow(ReadCorr(ReadVr(ReadSv(ReadDelta(
        ReadXiR(ReadCov(SetFields(a), a), a), a), a), a), a)))

(***************************************************************************)
(* The theory functions as log_likelihood sees them: a monopole and a      *)
(* quadrupole value per separation of s, each the term of the quantities   *)
(* the function computes it from; and the instance as the call leaves it.  *)
(***************************************************************************)
\* Lines 136-138: alpha_para = alpha * epsilon ** (-2/3) with alpha = 1.0,
\* alpha_perp = epsilon * alpha_para.
AlphaPara(epsilon) ==
    IF epsilon = One THEN One ELSE [op |-> "epsilon**(-2/3)", epsilon |-> epsilon]
AlphaPerp(epsilon, alpha_para) ==
    IF IsRat(alpha_para) THEN RMul(epsilon, alpha_para)
    ELSE [op |-> "epsilon*epsilon**(-2/3)", epsilon |-> epsilon]

\* rescaled_r of lines 185-190, 252-257, 307-312.
RescaledGrid(r, alpha_perp, alpha_para) ==
    IF IsRat(alpha_perp) /\ IsRat(alpha_para)
    THEN RescaledR(r, alpha_perp, alpha_para)
    ELSE [i \in 1..Len(r) |->
             [op |-> "trapz", r |-> r[i], alpha_perp |-> alpha_perp, alpha_para |-> alpha_para]]

\* InterpolatedUnivariateSpline(x, y, k=3) needs more than k samples.
SplineFits(x) == Len(x) > 3

Multipoles(theory, inputs, s) ==
    [monopole |-> [i \in 1..Len(s) |-> [op |-> theory, ell |-> 0, s |-> s[i], inputs |-> inputs]],
     quadrupole |-> [i \in 1..Len(s) |-> [op |-> theory, ell |-> 2, s |-> s[i], inputs |-> inputs]]]

\* What model1_theory computes the multipoles from (lines 182-203).
Model1Inputs(self, fs8, sigma_v, alpha_perp, alpha_para, mu) ==
    [scaled_fs8 |-> [op |-> "fs8/s8norm", fs8 |-> fs8, s8norm |-> self.s8norm],
     x |-> RescaledGrid(self.r_for_delta, alpha_perp, alpha_para),
     r |-> self.r_for_delta,
     y |-> <<self.xi_r, self.delta_r, self.Delta_r, self.sv>>,
     sigma_v |-> [op |-> "alpha_para*sigma_v", alpha_para |-> alpha_para, sigma_v |-> sigma_v],
     alpha_perp |-> alpha_perp, alpha_para |-> alpha_para,
     iaH |-> self.iaH, mu |-> mu]

\* model1_theory with rescaled_r an alias of self.r_for_delta: the loop of
\* lines 188-190 then writes the rescaled radii into the instance.
Model1TheoryInPlace(self, fs8, sigma_v, alpha_perp, alpha_para, s, mu) ==
    IF ~SplineFits(self.r_for_delta)
    THEN [outcome |-> "dfitpack.error", theory |-> "model1_theory", self |-> self]
    ELSE [outcome |-> "returned", theory |-> "model1_theory",
          self |-> [self EXCEPT !.r_for_delta =
                                    RescaledGrid(self.r_for_delta, alpha_perp, alpha_para)]]
         @@ Multipoles("model1_theory",
                       Model1Inputs(self, fs8, sigma_v, alpha_perp, alpha_para, mu), s)

\* Lines 176-241: every array the function writes (monopole, quadrupole,
\* true_mu, xi_model, rescaled_r) is a fresh local.
Model1Theory(self, fs8, sigma_v, alpha_perp, alpha_para, s, mu) ==
    IF ~SplineFits(self.r_for_delta)
    THEN [outcome |-> "dfitpack.error", theory |-> "model1_theory", self |-> self]
    ELSE [outcome |-> "returned", theory |-> "model1_theory", self |-> self]
         @@ Multipoles("model1_theory",
                       Model1Inputs(self, fs8, sigma_v, alpha_perp, alpha_para, mu), s)

\* Lines 243-296.
Model2Theory(self, fs8, alpha_perp, alpha_para, s, mu) ==
    IF ~SplineFits(self.r_for_delta)
    THEN [outcome |-> "dfitpack.error", theory |-> "model2_theory", self |-> self]
    ELSE [outcome |-> "returned", theory |-> "model2_theory", self |-> self]
         @@ Multipoles("model2_theory",
                       [scaled_fs8 |-> [op |-> "fs8/s8norm", fs8 |-> fs8, s8norm |-> self.s8norm],
                        x |-> RescaledGrid(self.r_for_delta, alpha_perp, alpha_para),
                        r |-> self.r_for_delta,
                        y |-> <<self.xi_r, self.delta_r, self.Delta_r>>,
                        alpha_perp |-> alpha_perp, alpha_para |-> alpha_para,
                        mu |-> mu], s)

\* Lines 298-386.
Model3Theory(self, fs8, sigma_v, alpha_perp, alpha_para, s, mu) ==
    IF ~SplineFits(self.r_for_delta)
    THEN [outcome |-> "dfitpack.error", theory |-> "model3_theory", self |-> self]
    ELSE [outcome |-> "returned", theory |-> "model3_theory", self |-> self]
         @@ Multipoles("model3_theory",
                       [scaled_fs8 |-> [op |-> "fs8/s8norm", fs8 |-> fs8, s8norm |-> self.s8norm],
                        x |-> RescaledGrid(self.r_for_delta, alpha_perp, alpha_para),
                        r |-> self.r_for_delta,
                        y |-> <<self.xi_r, self.delta_r, self.Delta_r,
                                self.vr, self.dvr, self.sv>>,
                        sigma_v |-> [op |-> "alpha_para*sigma_v", alpha_para |-> alpha_para,
                                     sigma_v |-> sigma_v],
                        alpha_perp |-> alpha_perp, alpha_para |-> alpha_para,
                        iaH |-> self.iaH, mu |-> mu], s)

(***************************************************************************)
(* RSDModel.log_likelihood, lines 130-161.  The result is the record       *)
(* [result, self]: what the call returned or raised (with the theory       *)
(* function it evaluated, "none" when it evaluated none) and the instance  *)
(* after the call.                                                         *)
(***************************************************************************)
\* Lines 154-161 on what the theory function returned.
AfterTheory(th) ==
    IF th.outcome # "returned"
    THEN [result |-> [outcome |-> th.outcome, theory |-> th.theory], self |-> th.self]
    ELSE [result |-> [theory |-> th.theory]
                     @@ LikelihoodTail(th.self, th.monopole, th.quadrupole),
          self |-> th.self]

LogLikelihood(self, theta) ==
    IF Len(theta) # (IF self.model = 1 THEN 3 ELSE 2)
    THEN [result |-> [outcome |-> "ValueError", theory |-> "none"], self |-> self]
    ELSE LET fs8 == theta[1]
             epsilon == theta[Len(theta)]
             alpha_para == AlphaPara(epsilon)
             alpha_perp == AlphaPerp(epsilon, alpha_para)
         IN  IF self.model = 1 \/ self.model = 3
             THEN IF self.model # 1
                  \* sigma_v is read at line 142 and was assigned at line 132 only
                  THEN [result |-> [outcome |-> "UnboundLocalError", theory |-> "none"],
                        self |-> self]
                  ELSE AfterTheory(Model1Theory(self, fs8, theta[2], alpha_perp, alpha_para,
                                                self.s_for_xi, self.mu_for_xi))
             ELSE AfterTheory(Model2Theory(self, fs8, alpha_perp, alpha_para,
                                           self.s_for_xi, self.mu_for_xi))

(***************************************************************************)
(* SpecTheory: the pure functions applied to drawn arguments.  Init draws  *)
(* one application (the function, the instance fields it reads and its     *)
(* arguments); the action of that function evaluates it.                   *)
(***************************************************************************)
Pending == [outcome |-> "pending"]

\* The values of the variables a specification does not use.
NoCall == [fn |-> "none"]
NoArgs == [none |-> TRUE]
NoStore == [exists |-> FALSE]
NoRun == [id |-> 0]
Idle == [fn |-> "idle"]

RSeq(q) == [i \in 1..Len(q) |-> Rat(q[i][1], q[i][2])]

Fs8Values == {Zero, Rat(1, 10), Rat(11, 100), Rat(1, 2), Rat(199, 100), RInt(2), Rat(21, 10)}
SigmaVValues == {Zero, RInt(1), Rat(101, 100), RInt(360), Rat(4999, 10), RInt(500), RInt(501)}
EpsilonValues == {Rat(79, 100), Rat(8, 10), Rat(81, 100), One, Rat(119, 100), Rat(12, 10), Rat(13, 10)}

Thetas3 == {<<f, v, e>> : f \in Fs8Values, v \in SigmaVValues, e \in EpsilonValues}
Thetas2 == {<<f, e>> : f \in Fs8Values, e \in EpsilonValues}

PriorCalls ==
    {[fn |-> "log_prior", self |-> [model |-> m], theta |-> th] :
        m \in 1..3, th \in Thetas3 \cup Thetas2}

MomentValues == {RInt(-1), Zero, Rat(1, 2)}
IcovEntries == {RInt(-1), Zero, RInt(2)}
Vectors2 == {<<a, b>> : a \in MomentValues, b \in MomentValues}
Matrices2 == {<<<<a, b>>, <<c, d>>>> : a \in IcovEntries, b \in IcovEntries,
                                       c \in IcovEntries, d \in IcovEntries}

\* One separation bin in a full fit (xi0 and xi2 of length 1), two bins in
\* a quadrupole-only fit (xi2 of length 2; xi0 is computed and dropped).
TailCalls ==
    {[fn |-> "likelihood_tail",
      self |-> [full_fit |-> TRUE, datavec |-> d, nmocks |-> NMocks,
                icov |-> [dim |-> 2, rows |-> m]],
      xi0 |-> <<v[1]>>, xi2 |-> <<v[2]>>] :
        d \in Vectors2, v \in Vectors2, m \in Matrices2}
    \cup
    {[fn |-> "likelihood_tail",
      self |-> [full_fit |-> FALSE, datavec |-> d, nmocks |-> NMocks,
                icov |-> [dim |-> 2, rows |-> m]],
      xi0 |-> v, xi2 |-> v] :
        d \in Vectors2, v \in Vectors2, m \in Matrices2}

RGrid == RSeq(<<<<1, 1>>, <<2, 1>>, <<3, 1>>, <<4, 1>>>>)
XiGrids == {RGrid, RSeq(<<<<2, 1>>, <<3, 1>>, <<4, 1>>, <<5, 1>>>>)}
XiProfiles == {RSeq(<<<<0, 1>>, <<0, 1>>, <<0, 1>>, <<0, 1>>>>),
               RSeq(<<<<-1, 1>>, <<-1, 2>>, <<0, 1>>, <<1, 2>>>>),
               RSeq(<<<<-1, 1>>, <<0, 1>>, <<1, 2>>, <<0, 1>>>>)}
DeltaProfiles == {<<RSeq(<<<<0, 1>>, <<0, 1>>, <<0, 1>>, <<0, 1>>>>),
                    RSeq(<<<<0, 1>>, <<0, 1>>, <<0, 1>>, <<0, 1>>>>)>>,
                  <<RSeq(<<<<-1, 1>>, <<-1, 2>>, <<0, 1>>, <<1, 2>>>>),
                    RSeq(<<<<-1, 1>>, <<-1, 1>>, <<-1, 2>>, <<0, 1>>>>)>>}

TheoryInstances ==
    {[r_for_delta |-> RGrid,
      xi_r |-> Spline(g, y, 3),
      delta_r |-> Spline(RGrid, dD[1], 3),
      Delta_r |-> Spline(RGrid, dD[2], 3),
      s8norm |-> Rat(3, 5)] :
        g \in XiGrids, y \in XiProfiles, dD \in DeltaProfiles}

Alphas == {<<One, One>>, <<RInt(2), RInt(2)>>, <<One, RInt(2)>>, <<RInt(2), One>>}
XiFs8Values == {Zero, Rat(3, 10)}
XiSeparations == {One, RInt(2), Rat(3, 2)}
XiCosines == {Zero, Rat(3, 5), One}

XiCalls ==
    {[fn |-> "model2_xi_model", self |-> inst, fs8 |-> f,
      alpha_perp |-> a[1], alpha_para |-> a[2], s |-> sep, mu |-> m] :
        inst \in TheoryInstances, f \in XiFs8Values, a \in Alphas,
        sep \in XiSeparations, m \in XiCosines}

InitTheory ==
    /\ call \in PriorCalls \cup TailCalls \cup XiCalls
    /\ ret = Pending
    /\ args = NoArgs /\ pc = "theory" /\ reads = <<>>
    /\ model = NoInstance /\ model0 = NoInstance
    /\ inflight = <<>> /\ results = {}
    /\ store = NoStore /\ run = NoRun

rest == <<args, pc, reads, model, model0, inflight, results, store, run>>

ApplyLogPrior ==
    /\ call.fn = "log_prior"
    /\ ret = Pending
    /\ ret' = LogPrior(call.self, call.theta)
    /\ UNCHANGED <<call, rest>>

ApplyLikelihoodTail ==
    /\ call.fn = "likelihood_tail"
    /\ ret = Pending
    /\ ret' = LikelihoodTail(call.self, call.xi0, call.xi2)
    /\ UNCHANGED <<call, rest>>

ApplyModel2XiModel ==
    /\ call.fn = "model2_xi_model"
    /\ ret = Pending
    /\ ret' = Returned(Model2XiModel(call.self, call.fs8, call.alpha_perp,
                                     call.alpha_para, call.s, call.mu))
    /\ UNCHANGED <<call, rest>>

NextTheory == ApplyLogPrior \/ ApplyLikelihoodTail \/ ApplyModel2XiModel

SpecTheory == InitTheory /\ [][NextTheory]_vars

(***************************************************************************)
(* SpecModel: one RSDModel(...) construction, then log_prior and           *)
(* log_likelihood calls by the workers of a pool, which overlap: a call    *)
(* begins, other calls begin or end, the call ends.                        *)
(***************************************************************************)
NWorkers == 2
MaxCalls == 2

Workers == 1..NWorkers

Files(a) ==
    [delta_r_file |-> "delta_r.dat", xi_r_file |-> "xi_r.dat",
     xi_smu_file |-> "xi_smu.dat", covmat_file |-> "covmat.npy"] @@ a

FileSystem(cov_exists, cov_dim, delta_rows) ==
    [cov_exists |-> cov_exists, cov_dim |-> cov_dim, xi_rows |-> NBins,
     delta_rows |-> delta_rows, sv_rows |-> NBins, vr_rows |-> NBins, s_bins |-> NBins]

\* smin, smax: the defaults, a window whose bounds are bin centres, and a
\* window of three bins.
Windows == {<<Zero, RInt(100)>>, <<RInt(15), RInt(45)>>, <<RInt(20), RInt(50)>>}

ModelArgs ==
    \* every variant, with and without the covariance file and the profiles
    {Files([sv_file |-> sv, vr_file |-> vr, full_fit |-> 1,
            smin |-> Zero, smax |-> RInt(100), model |-> m, const_sv |-> FALSE,
            fs |-> FileSystem(cov, 2 * NBins, NBins)]) :
        m \in 1..3, sv \in {NoneValue, "sv_r.dat"}, vr \in {NoneValue, "vr_r.dat"},
        cov \in BOOLEAN}
    \cup
    \* the fitting windows and the two fitting modes
    {Files([sv_file |-> "sv_r.dat", vr_file |-> IF m = 3 THEN "vr_r.dat" ELSE NoneValue,
            full_fit |-> ff, smin |-> w[1], smax |-> w[2], model |-> m, const_sv |-> FALSE,
            fs |-> FileSystem(TRUE, dim, NBins)]) :
        m \in 1..3, ff \in {0, 1}, w \in Windows, dim \in {NBins - 2, 2 * (NBins - 2)}}
    \cup
    \* a delta_r table one row short, a constant dispersion profile
    {Files([sv_file |-> "sv_r.dat", vr_file |-> NoneValue, full_fit |-> 0,
            smin |-> Zero, smax |-> RInt(100), model |-> 1, const_sv |-> c,
            fs |-> FileSystem(TRUE, NBins, rows)]) :
        c \in BOOLEAN, rows \in {NBins - 1, NBins}}

ModelThetas ==
    {<<Rat(472, 1000), RInt(360), One>>,
     <<Rat(472, 1000), RInt(360), Rat(9, 10)>>,
     <<Rat(472, 1000), One>>}

InitModel ==
    /\ args \in ModelArgs
    /\ pc = "new" /\ reads = <<>>
    /\ model = NoInstance /\ model0 = NoInstance
    /\ inflight = [w \in Workers |-> Idle] /\ results = {}
    /\ call = NoCall /\ ret = Pending
    /\ store = NoStore /\ run = NoRun

\* model = RSDModel(**args)
ConstructModel ==
    /\ pc = "new"
    /\ \E st \in {Construct(args)} :
        /\ pc' = st.outcome
        /\ reads' = st.reads
        /\ model' = IF st.outcome = "built" THEN st.self ELSE NoInstance
        /\ model0' = IF st.outcome = "built" THEN st.self ELSE NoInstance
    /\ UNCHANGED <<call, ret, args, inflight, results, store, run>>

Begun == Cardinality(results) + Cardinality({w \in Workers : inflight[w] # Idle})

BeginCall(w) ==
    /\ pc = "built"
    /\ inflight[w] = Idle
    /\ Begun < MaxCalls
    /\ \E fn \in {"log_prior", "log_likelihood"}, theta \in ModelThetas :
          inflight' = [inflight EXCEPT ![w] = [fn |-> fn, theta |-> theta]]
    /\ UNCHANGED <<call, ret, args, pc, reads, model, model0, results, store, run>>

EndLogPrior(w) ==
    /\ inflight[w].fn = "log_prior"
    /\ results' = results \cup {[fn |-> "log_prior", theta |-> inflight[w].theta,
                                 result |-> LogPrior(model, inflight[w].theta)]}
    /\ inflight' = [inflight EXCEPT ![w] = Idle]
    /\ UNCHANGED <<call, ret, args, pc, reads, model, model0, store, run>>

EndLogLikelihood(w) ==
    /\ inflight[w].fn = "log_likelihood"
    /\ \E r \in {LogLikelihood(model, inflight[w].theta)} :
        /\ results' = results \cup {[fn |-> "log_likelihood", theta |-> inflight[w].theta,
                                     result |-> r.result]}
        /\ model' = r.self
    /\ inflight' = [inflight EXCEPT ![w] = Idle]
    /\ UNCHANGED <<call, ret, args, pc, reads, model0, store, run>>

NextModel ==
    \/ ConstructModel
    \/ \E w \in Workers : BeginCall(w)
    \/ \E w \in Workers : EndLogPrior(w)
    \/ \E w \in Workers : EndLogLikelihood(w)

SpecModel == InitModel /\ [][NextModel]_vars

(***************************************************************************)
(* mcmc.py.  rsdmodel.py defines the one class RSDModel: the names Model1  *)
(* and Model2 the script imports are read as RSDModel with model=1 and     *)
(* model=2 and the keyword arguments the script passes.                    *)
(***************************************************************************)
\* log_probability with the likelihood evaluated before the prior is
\* looked at.
LogProbabilityEager(theta) ==
    LET lp == LogPrior(model, theta)
        ll == LogLikelihood(model, theta).result
    IN  IF lp.outcome # "returned"
        THEN [outcome |-> lp.outcome, calls |-> <<"log_prior">>]
        ELSE IF ll.outcome # "returned"
        THEN [outcome |-> ll.outcome, calls |-> <<"log_prior", "log_likelihood">>]
        ELSE IF ~IsFinite(lp.value)
        THEN [outcome |-> "returned", value |-> NegInf,
              calls |-> <<"log_prior", "log_likelihood">>]
        ELSE [outcome |-> "returned", value |-> FAdd(lp.value, ll.value),
              calls |-> <<"log_prior", "log_likelihood">>]

\* Lines 10-14, on the global model.  calls lists the methods of the model
\* the evaluation invoked, in order.
LogProbability(theta) ==
    LET lp == LogPrior(model, theta)
        ll == LogLikelihood(model, theta).result
    IN  IF lp.outcome # "returned"
        THEN [outcome |-> lp.outcome, calls |-> <<"log_prior">>]
        ELSE IF ~IsFinite(lp.value)
        THEN [outcome |-> "returned", value |-> NegInf, calls |-> <<"log_prior">>]
        ELSE IF ll.outcome # "returned"
        THEN [outcome |-> ll.outcome, calls |-> <<"log_prior", "log_likelihood">>]
        ELSE [outcome |-> "returned", value |-> FAdd(lp.value, ll.value),
              calls |-> <<"log_prior", "log_likelihood">>]

\* Lines 35-37: Model1(delta_r_file=..., xi_r_file=..., sv_file=args.sv_r,
\* xi_smu_file=..., covmat_file=..., full_fit=..., smin=..., smax=...)
Model1(a) ==
    Construct(Files([sv_file |-> a.sv_r, vr_file |-> NoneValue, full_fit |-> a.full_fit,
                     smin |-> a.smin, smax |-> a.smax, model |-> 1, const_sv |-> FALSE,
                     fs |-> a.fs]))

\* Lines 72-74: Model2(...) is given no sv_file.
Model2(a) ==
    Construct(Files([sv_file |-> NoneValue, vr_file |-> NoneValue, full_fit |-> a.full_fit,
                     smin |-> a.smin, smax |-> a.smax, model |-> 2, const_sv |-> FALSE,
                     fs |-> a.fs]))

NWalkers == 2
NIter == 2
MaxRuns == 2

Walkers == 1..NWalkers

IsPrefix(a, b) == Len(a) <= Len(b) /\ \A i \in 1..Len(a) : a[i] = b[i]

\* backend.reset(nwalkers, ndim), lines 60 and 96: the file is created if
\* it is not there, a chain in it is deleted, the iteration count is 0.
BackendReset(st, nwalkers, ndim) ==
    [exists |-> TRUE, nwalkers |-> nwalkers, ndim |-> ndim, chain |-> <<>>]

\* The step the sampler saves replaces the last saved step.
SaveStepOverLast(st, coords, log_prob) ==
    [st EXCEPT !.chain = <<[coords |-> coords, log_prob |-> log_prob]>>]

\* run_mcmc with backend=backend (lines 64-68, 100-104): after each
\* iteration the sampler saves the positions and log-probabilities of all
\* walkers as the next step of the chain.
SaveStep(st, coords, log_prob) ==
    [st EXCEPT !.chain = Append(@, [coords |-> coords, log_prob |-> log_prob])]

\* The first outcome other than "returned" among the evaluations, if any.
FirstError(evals) ==
    IF \A w \in Walkers : evals[w].outcome = "returned" THEN "none"
    ELSE evals[CHOOSE w \in Walkers :
                   /\ evals[w].outcome # "returned"
                   /\ \A v \in 1..(w - 1) : evals[v].outcome = "returned"].outcome

(***************************************************************************)
(* SpecDriver: runs of mcmc.py against one backend path.  A run builds the *)
(* model, resets the backend and samples; it ends when niter iterations    *)
(* are done, when an exception or exit ends it, or when it is killed; then *)
(* the script may be run again.                                            *)
(***************************************************************************)
DriverArgs ==
    {[model |-> m, sv_r |-> sv, full_fit |-> 1, smin |-> Zero, smax |-> RInt(100),
      backend_name |-> "chain.h5", fs |-> FileSystem(cov, dim, NBins)] :
        m \in 1..3, sv \in {NoneValue, "sv_r.dat"}, cov \in BOOLEAN,
        dim \in {NBins, 2 * NBins}}

\* Walker positions: in (0.472, 360, 1.0) + 1e-2 * randn * (1, 1000, 1)
\* and where a move may propose, inside and outside the prior bounds.
DriverThetas ==
    {<<Rat(48, 100), RInt(355), Rat(101, 100)>>,
     <<Rat(46, 100), RInt(370), Rat(99, 100)>>,
     <<Rat(1, 10), RInt(360), Rat(101, 100)>>}

\* p0: the walkers start at two positions near the start parameters.
StartPositions ==
    {[w \in Walkers |-> IF w % 2 = 1 THEN <<Rat(48, 100), RInt(355), Rat(101, 100)>>
                                     ELSE <<Rat(46, 100), RInt(370), Rat(99, 100)>>]}

InitDriver ==
    /\ args \in DriverArgs
    /\ pc = "start" /\ reads = <<>>
    /\ model = NoInstance /\ model0 = NoInstance
    /\ inflight = <<>> /\ results = {}
    /\ call = NoCall /\ ret = Pending
    /\ store = NoStore
    /\ run = [id |-> 1, iteration |-> 0, coords |-> <<>>, log_prob |-> <<>>, earlier |-> <<>>]

\* Lines 34-68: the model 1 branch up to the first step of run_mcmc, which
\* evaluates log_probability at p0.
StartModel1 ==
    /\ pc = "start" /\ args.model = 1
    /\ \E st \in {Model1(args)} :
        /\ reads' = st.reads
        /\ IF st.outcome # "built"
           THEN /\ pc' = st.outcome
                /\ UNCHANGED <<model, model0, results, store, run>>
           ELSE /\ model' = st.self /\ model0' = st.self
                /\ store' = BackendReset(store, NWalkers, 3)
                /\ \E p0 \in StartPositions :
                     \E evals \in {[w \in Walkers |-> LogProbability(p0[w])']} :
                        /\ results' = {[fn |-> "log_probability", theta |-> p0[w],
                                        result |-> evals[w]] : w \in Walkers}
                        /\ IF FirstError(evals) # "none"
                           THEN pc' = FirstError(evals) /\ UNCHANGED run
                           ELSE /\ pc' = "sampling"
                                /\ run' = [run EXCEPT !.iteration = 0, !.coords = p0,
                                                      !.log_prob = [w \in Walkers |-> evals[w].value]]
    /\ UNCHANGED <<call, ret, args, inflight>>

\* Lines 71-104: the model 2 branch.
StartModel2 ==
    /\ pc = "start" /\ args.model = 2
    /\ \E st \in {Model2(args)} :
        /\ reads' = st.reads
        /\ IF st.outcome # "built"
           THEN /\ pc' = st.outcome
                /\ UNCHANGED <<model, model0, results, store, run>>
           ELSE /\ model' = st.self /\ model0' = st.self
                /\ store' = BackendReset(store, NWalkers, 2)
                /\ \E p0 \in {[w \in Walkers |-> <<p[w][1], p[w][3]>>] : p \in StartPositions} :
                     \E evals \in {[w \in Walkers |-> LogProbability(p0[w])']} :
                        /\ results' = {[fn |-> "log_probability", theta |-> p0[w],
                                        result |-> evals[w]] : w \in Walkers}
                        /\ IF FirstError(evals) # "none"
                           THEN pc' = FirstError(evals) /\ UNCHANGED run
                           ELSE /\ pc' = "sampling"
                                /\ run' = [run EXCEPT !.iteration = 0, !.coords = p0,
                                                      !.log_prob = [w \in Walkers |-> evals[w].value]]
    /\ UNCHANGED <<call, ret, args, inflight>>

\* Neither branch is taken for another model id: the script ends.
StartOther ==
    /\ pc = "start" /\ args.model # 1 /\ args.model # 2
    /\ pc' = "done"
    /\ UNCHANGED <<call, ret, args, reads, model, model0, inflight, results, store, run>>

\* One iteration of run_mcmc: a move proposes a position for every walker,
\* log_probability is evaluated at the proposals, a proposal of
\* log-probability -inf is never accepted, and the step is saved.
SampleStep ==
    /\ pc = "sampling" /\ run.iteration < NIter
    /\ \E q \in [Walkers -> DriverThetas], accept \in [Walkers -> BOOLEAN] :
         \E evals \in {[w \in Walkers |-> LogProbability(q[w])]} :
            /\ results' = {[fn |-> "log_probability", theta |-> q[w],
                             result |-> evals[w]] : w \in Walkers}
            /\ IF FirstError(evals) # "none"
               THEN pc' = FirstError(evals) /\ UNCHANGED <<run, store>>
               ELSE \E moved \in {[w \in Walkers |-> accept[w] /\ evals[w].value # NegInf]} :
                      \E coords \in {[w \in Walkers |-> IF moved[w] THEN q[w] ELSE run.coords[w]]},
                         log_prob \in {[w \in Walkers |-> IF moved[w] THEN evals[w].value
                                                          ELSE run.log_prob[w]]} :
                         /\ run' = [run EXCEPT !.iteration = @ + 1, !.coords = coords,
                                               !.log_prob = log_prob]
                         /\ store' = SaveStep(store, coords, log_prob)
                         /\ pc' = "sampling"
    /\ UNCHANGED <<call, ret, args, reads, model, model0, inflight>>

\* run_mcmc returns after niter iterations and the script ends.
Finish ==
    /\ pc = "sampling" /\ run.iteration = NIter
    /\ pc' = "done"
    /\ UNCHANGED <<call, ret, args, reads, model, model0, inflight, results, store, run>>

\* The process is killed between two iterations.
Kill ==
    /\ pc = "sampling"
    /\ pc' = "killed"
    /\ UNCHANGED <<call, ret, args, reads, model, model0, inflight, results, store, run>>

\* The script is run again with the same arguments.  run.earlier keeps
\* the steps the runs so far left in the store.
Restart ==
    /\ pc \notin {"start", "sampling"}
    /\ run.id < MaxRuns
    /\ pc' = "start" /\ reads' = <<>>
    /\ model' = NoInstance /\ model0' = NoInstance /\ results' = {}
    /\ run' = [id |-> run.id + 1, iteration |-> 0, coords |-> <<>>, log_prob |-> <<>>,
               earlier |-> IF store.exists THEN store.chain ELSE <<>>]
    /\ UNCHANGED <<call, ret, args, inflight, store>>

NextDriver ==
    \/ StartModel1
    \/ StartModel2
    \/ StartOther
    \/ SampleStep
    \/ Finish
    \/ Kill
    \/ Restart

SpecDriver == InitDriver /\ [][NextDriver]_vars

(***************************************************************************)
(* Properties of the pure functions (SpecTheory)                           *)
(***************************************************************************)
\* The arity of the parameter vector of a variant: fs8, sigma_v, epsilon
\* where the variant has a velocity-dispersion amplitude, else fs8, epsilon.
Arity(id) == IF id = 2 THEN 2 ELSE 3

\* x strictly between num1/den1 and num2/den2, on the integers
StrictlyBetween(x, num1, den1, num2, den2) ==
    /\ num1 * x.d < x.n * den1
    /\ x.n * den2 < num2 * x.d

StrictlyInsideBounds(theta) ==
    IF Len(theta) = 3
    THEN /\ StrictlyBetween(theta[1], 1, 10, 2, 1)
         /\ StrictlyBetween(theta[2], 1, 1, 500, 1)
         /\ StrictlyBetween(theta[3], 8, 10, 12, 10)
    ELSE /\ StrictlyBetween(theta[1], 1, 10, 2, 1)
         /\ StrictlyBetween(theta[2], 8, 10, 12, 10)

\* C1: for every model id in {1,2,3} and every theta of that variant's
\* arity, log_prior returns exactly 0.0 when every parameter lies strictly
\* inside its bounds and exactly -infinity otherwise, a parameter equal to
\* one of its bounds included.
C1_LogPriorBounds ==
    (/\ call.fn = "log_prior"
     /\ ret # Pending
     /\ Len(call.theta) = Arity(call.self.model))
    => ret = IF StrictlyInsideBounds(call.theta)
             THEN Returned(Zero) ELSE Returned(NegInf)

\* log_prior was applied to a vector with fs8 on its lower bound and every
\* other parameter inside its bounds, and rejected it.
C1_Witness ==
    /\ call.fn = "log_prior"
    /\ Len(call.theta) = Arity(call.self.model)
    /\ call.theta[1] = Rat(1, 10)
    /\ \A i \in 2..Len(call.theta) : call.theta[i] = IF i = Len(call.theta) THEN One ELSE RInt(360)
    /\ ret = Returned(NegInf)

\* The quadratic form (m - d)^T icov (m - d), summed over the index pairs.
QuadraticForm(m, d, rows) ==
    LET k == Len(m)
        pairs == [p \in 1..(k * k) |->
                     LET i == ((p - 1) \div k) + 1
                         j == ((p - 1) % k) + 1
                     IN  RMul(RMul(RSub(m[i], d[i]), rows[i][j]), RSub(m[j], d[j]))]
    IN  SumTo(pairs, k * k)

\* C4: log_likelihood returns -(nmocks/2) * ln(1 + chi2/(nmocks-1)) with
\* chi2 = (model-data)^T icov (model-data); whenever the model moment
\* vector equals the data vector, chi2 = 0 and the returned value is 0,
\* whatever the inverse covariance matrix is.
C4_LikelihoodFormula ==
    (call.fn = "likelihood_tail" /\ ret # Pending /\ ret.outcome = "returned")
    => /\ ret.chi2 = QuadraticForm(ret.modelvec, call.self.datavec, call.self.icov.rows)
       /\ ret.value = FScale(Rat(-(call.self.nmocks), 2),
                             FLog(RAdd(One, RDiv(ret.chi2, RInt(call.self.nmocks - 1)))))
       /\ (ret.modelvec = call.self.datavec => ret.chi2 = Zero /\ ret.value = Zero)

\* The tail was applied to a nonzero moment vector equal to the data vector
\* under an inverse covariance with no zero entry, and returned 0.
C4_Witness ==
    /\ call.fn = "likelihood_tail"
    /\ ret # Pending /\ ret.outcome = "returned"
    /\ ret.modelvec = call.self.datavec
    /\ \A i \in 1..2 : ret.modelvec[i] # Zero
    /\ \A i \in 1..2 : \A j \in 1..2 : call.self.icov.rows[i][j] # Zero
    /\ ret.value = Zero

IsSample(s, grid) == \E i \in 1..Len(grid) : grid[i] = s

\* C9 (as amended): in model2_theory with fs8 = 0 and alpha_perp equal to
\* alpha_para, at every separation s that is a sample of r_for_delta and
\* every angle cosine mu, the prediction xi_model(s, mu) equals xi_r(s).
C9_NoDistortionIsotropic ==
    (/\ call.fn = "model2_xi_model"
     /\ ret # Pending
     /\ call.fs8 = Zero
     /\ call.alpha_perp = call.alpha_para
     /\ IsSample(call.s, call.self.r_for_delta))
    => ret.value = SplineEval(call.self.xi_r, call.s)

\* The case: fs8 = 0, both alphas 2, a profile that differs between s and
\* 2s, off the line of sight and off the transverse direction.
C9_Witness ==
    /\ call.fn = "model2_xi_model"
    /\ ret # Pending
    /\ call.fs8 = Zero
    /\ call.alpha_perp = RInt(2) /\ call.alpha_para = RInt(2)
    /\ call.mu = Rat(3, 5)
    /\ call.s = One
    /\ SplineEval(call.self.xi_r, RInt(2)) # SplineEval(call.self.xi_r, One)
    /\ ret.value = SplineEval(call.self.xi_r, call.s)

\* C9 as stated: with fs8 = 0 the prediction equals xi_r(s) at every s and
\* mu, whatever the alphas.
C9_NoDistortion ==
    (call.fn = "model2_xi_model" /\ ret # Pending /\ call.fs8 = Zero)
    => ret.value = SplineEval(call.self.xi_r, call.s)

(***************************************************************************)
(* Properties of the constructor and of the calls (SpecModel)              *)
(***************************************************************************)
TheoryOf(id) ==
    CASE id = 1 -> "model1_theory"
      [] id = 2 -> "model2_theory"
      [] id = 3 -> "model3_theory"

\* C3: when log_likelihood is called (with a theta of the variant's arity)
\* the model id selects the theory function: id 1 evaluates model1_theory,
\* id 2 model2_theory and id 3 model3_theory, no two ids the same one.
C3_IdSelectsTheory ==
    pc = "built" =>
        \A r \in results :
            (r.fn = "log_likelihood" /\ Len(r.theta) = Arity(model0.model))
            => r.result.theory = TheoryOf(model0.model)

\* C6: after construction, any sequence and any interleaving of log_prior
\* and log_likelihood calls leaves every field of the instance unchanged,
\* and the value returned for a given theta is the same whichever calls
\* preceded it or ran alongside it.
C6_CallsLeaveInstanceUnchanged ==
    /\ pc = "built" => model = model0
    /\ \A a \in results : \A b \in results :
          (a.fn = b.fn /\ a.theta = b.theta) => a.result = b.result

\* Two calls have ended, one of them a log_likelihood with epsilon = 0.9
\* that evaluated its theory function and returned, and the instance is
\* as constructed.
C6_Witness ==
    /\ pc = "built"
    /\ Cardinality(results) = 2
    /\ \E r \in results :
          /\ r.fn = "log_likelihood"
          /\ r.theta = <<Rat(472, 1000), RInt(360), Rat(9, 10)>>
          /\ r.result.outcome = "returned"
          /\ r.result.theory = "model1_theory"
    /\ model = model0

\* C7: when the covariance file does not exist, construction exits with
\* the diagnostic before any radial-profile or correlation-function file
\* is read, and produces no instance.
C7_MissingCovarianceExitsFirst ==
    (pc # "new" /\ ~args.fs.cov_exists)
    => /\ pc = "SystemExit"
       /\ Construct(args).message = "Covariance matrix not found."
       /\ reads = <<>>
       /\ model = NoInstance

\* The constructor of variant 3, given every profile file but a missing
\* covariance file, has exited.
C7_Witness ==
    /\ pc = "SystemExit"
    /\ ~args.fs.cov_exists
    /\ args.model = 3
    /\ args.sv_file # NoneValue /\ args.vr_file # NoneValue
    /\ reads = <<>>

\* The radial grids of the instance.
RadialGrids(self) ==
    {self[name] : name \in {"r_for_xi", "r_for_delta", "r_for_sv", "r_for_vr"} \cap DOMAIN self}

InWindow(sep, smin, smax) == sep.n * smin.d >= smin.n * sep.d /\ sep.n * smax.d <= smax.n * sep.d

\* C8: after construction s_for_xi, xi0_s, xi2_s and the radial grids all
\* have one length n and keep exactly the bins with smin <= s <= smax;
\* datavec has length 2n in a full fit and n otherwise; the moment vector
\* log_likelihood builds has the length of datavec.
C8_CommonWindow ==
    pc = "built" =>
        LET n == Len(model0.s_for_xi)
            table == Grid(args.fs.s_bins)
        IN  /\ model0.s_for_xi = SelectSeq(table, LAMBDA sep : InWindow(sep, args.smin, args.smax))
            /\ Len(model0.xi0_s) = n /\ Len(model0.xi2_s) = n
            /\ \A g \in RadialGrids(model0) : Len(g) = n
            /\ Len(model0.datavec) = IF model0.full_fit THEN 2 * n ELSE n
            /\ \A r \in results :
                  (r.fn = "log_likelihood" /\ "modelvec" \in DOMAIN r.result)
                  => Len(r.result.modelvec) = Len(model0.datavec)

\* C10: log_prior and log_likelihood take a theta of the same arity: every
\* theta for which log_prior returned 0.0 is evaluated by log_likelihood
\* without an unpacking error and with every argument of the theory
\* function bound (the theory function is reached).
C10_SameArity ==
    pc = "built" =>
        \A a \in results : \A b \in results :
            (/\ a.fn = "log_prior" /\ a.result = Returned(Zero)
             /\ b.fn = "log_likelihood" /\ b.theta = a.theta)
            => b.result.theory # "none"

\* The input files other than the velocity-dispersion file are present and
\* their tables have the same number of rows.
WellFormedInputs(a) ==
    /\ a.fs.cov_exists
    /\ a.fs.xi_rows = a.fs.s_bins /\ a.fs.delta_rows = a.fs.s_bins

\* C11: with model id 2 and no velocity-dispersion file given, and all
\* other input files present and well-formed, the constructor runs to
\* completion and yields a model whose datavec is defined; it never
\* indexes a velocity-dispersion grid that was not loaded.
C11_Model2ConstructsWithoutSv ==
    (/\ pc # "new"
     /\ args.model = 2
     /\ args.sv_file = NoneValue
     /\ WellFormedInputs(args))
    => /\ pc = "built"
       /\ "datavec" \in DOMAIN model
       /\ "r_for_sv" \notin DOMAIN model

(***************************************************************************)
(* Properties of the driver (SpecDriver)                                   *)
(***************************************************************************)
Occurrences(name, calls) == Cardinality({i \in 1..Len(calls) : calls[i] = name})

\* C2: log_probability evaluates log_prior first; when the prior is not
\* finite it returns -infinity and log_likelihood is never invoked for that
\* theta; when the prior is finite it returns log_prior(theta) +
\* log_likelihood(theta), with log_likelihood invoked exactly once.
C2_PriorShortCircuits ==
    model # NoInstance =>
        \A r \in results :
            r.fn = "log_probability" =>
                LET lp == LogPrior(model, r.theta)
                    ll == LogLikelihood(model, r.theta).result
                IN  /\ r.result.calls[1] = "log_prior"
                    /\ Occurrences("log_prior", r.result.calls) = 1
                    /\ (lp.outcome = "returned" /\ ~IsFinite(lp.value))
                       => /\ r.result.outcome = "returned"
                          /\ r.result.value = NegInf
                          /\ Occurrences("log_likelihood", r.result.calls) = 0
                    /\ (lp.outcome = "returned" /\ IsFinite(lp.value))
                       => /\ Occurrences("log_likelihood", r.result.calls) = 1
                          /\ r.result.outcome = ll.outcome
                          /\ ll.outcome = "returned"
                             => r.result.value = FAdd(lp.value, ll.value)

\* One batch evaluated a position outside the prior bounds, without the
\* likelihood, and a position inside them, with the likelihood.
C2_Witness ==
    /\ pc = "sampling"
    /\ \E a \in results : \E b \in results :
          /\ a.result.outcome = "returned" /\ a.result.value = NegInf
          /\ a.result.calls = <<"log_prior">>
          /\ b.result.outcome = "returned" /\ b.result.value # NegInf
          /\ b.result.calls = <<"log_prior", "log_likelihood">>

\* C5 (as amended): within one run the chain store is append-only: each
\* iteration appends one step and leaves the steps saved before it as they
\* are, the number of saved steps is the iteration count; and every run
\* that reaches sampling starts from an empty store at iteration 0.
C5_AppendOnlyWithinRun ==
    [][/\ pc = "sampling"
          => /\ store'.exists
             /\ IsPrefix(store.chain, store'.chain)
             /\ Len(store'.chain) = run'.iteration
             /\ Len(store'.chain) <= Len(store.chain) + 1
       /\ (pc = "start" /\ pc' = "sampling")
          => /\ store'.chain = <<>>
             /\ run'.iteration = 0]_vars

\* The second run has saved its second step, after an earlier run had left
\* two steps in the store.
C5_Witness ==
    /\ run.id = 2
    /\ pc = "sampling"
    /\ Len(run.earlier) = 2
    /\ run.iteration = 2
    /\ Len(store.chain) = 2

\* C5 as stated: the steps the completed batches of an earlier run saved
\* are still in the store after a later run has started, and the later run
\* continues from the last completed iteration.
C5_ResumesAfterRestart ==
    (run.id > 1 /\ pc = "sampling")
    => /\ IsPrefix(run.earlier, store.chain)
       /\ run.iteration >= Len(run.earlier)

====
